---------------------------- MODULE Spec2Model ----------------------------
(***************************************************************************)
(* cargo-bitbake: generation of a BitBake recipe from a resolved Cargo     *)
(* dependency set.  The module models                                      *)
(*   - src/git.rs      git_to_yocto_git_url (the URL translator) and       *)
(*                     ProjectRepo::new (the probe of the checkout),       *)
(*   - src/license.rs  file (the license evidence resolver),               *)
(*   - src/main.rs     real_main (the dependency loop, the license loop    *)
(*                     and the writing of the two artifacts).              *)
(* Rust strings are TLA+ strings; a character is a string of length one.   *)
(***************************************************************************)
EXTENDS Integers, Sequences, FiniteSets, TLC

VARIABLES
    pc,              \* position of the modelled call
    url,             \* git_to_yocto_git_url: argument url
    name,            \* git_to_yocto_git_url: argument name (an Option)
    prefix,          \* git_to_yocto_git_url: argument prefix
    yocto,           \* git_to_yocto_git_url: what the call produced
    resolve,         \* real_main: the resolved packages, in iteration order
    reproducible,    \* real_main: options.reproducible (-R)
    idx,             \* real_main: the next package resolve.1.iter() yields
    src_uris,        \* real_main: the fetch-URI lines collected so far
    src_uri_extras,  \* real_main: the auxiliary directive lines
    inc_file,        \* the src_uri field written to <name>_<version>.inc
    bb_file,         \* the src_uri_extras field written to <name>_<version>.bb
    files,           \* the entries of crate_root: name -> state of the file
    rel_dir,         \* the package's directory relative to the workspace
    license,         \* real_main: the license expression of the manifest
    licenses,        \* real_main: the components still to resolve
    single_license,  \* license::file: argument single_license
    license_name,    \* license::file: argument license_name
    lic_line,        \* license::file: what the call returned
    lic_files,       \* real_main: the evidence lines collected
    repo,            \* the git checkout around the working directory
    legacy_overrides,\* real_main: options.legacy_overrides (-l)
    project_repo,    \* real_main: the ProjectRepo it goes on with
    git_srcpv,       \* real_main: the version-pin directive, or ""
    bb_project       \* the project fields written to <name>_<version>.bb

urlVars == <<url, name, prefix, yocto>>
mainVars == <<resolve, reproducible, idx, src_uris, src_uri_extras,
              inc_file, bb_file>>
licVars == <<files, rel_dir, license, licenses, single_license,
             license_name, lic_line, lic_files>>
repoVars == <<repo, legacy_overrides, project_repo, git_srcpv, bb_project>>
vars == <<pc, urlVars, mainVars, licVars, repoVars>>

-----------------------------------------------------------------------------
(* Strings *)

CharAt(s, i) == SubSeq(s, i, i)

\* str::find(char): the 1-based index of the first occurrence, 0 for None.
Find(s, c) ==
    IF \E i \in 1..Len(s) : CharAt(s, i) = c
    THEN CHOOSE i \in 1..Len(s) :
            /\ CharAt(s, i) = c
            /\ \A j \in 1..(i - 1) : CharAt(s, j) # c
    ELSE 0

\* str::replace(from, to) for a one-character pattern: every occurrence.
RECURSIVE Replace(_, _, _)
Replace(s, from, to) ==
    IF Len(s) = 0 THEN ""
    ELSE (IF CharAt(s, 1) = from THEN to ELSE CharAt(s, 1))
         \o Replace(SubSeq(s, 2, Len(s)), from, to)

StartsWith(s, p) == Len(s) >= Len(p) /\ SubSeq(s, 1, Len(p)) = p

\* The printable ASCII characters in code order (the grave accent, which
\* no line of a recipe holds, left out); a line feed sorts before them.
Ascii ==
    " !\"#$%&'()*+,-./0123456789:;<=>?@ABCDEFGHIJKLMNOPQRSTUVWXYZ[\\]^_abcdefghijklmnopqrstuvwxyz{|}~"

Ord == [c \in {CharAt(Ascii, i) : i \in 1..Len(Ascii)} \cup {"\n"} |->
            IF c = "\n" THEN 0 ELSE Find(Ascii, c)]

\* Ord for str: the byte-wise lexicographic order of String.
RECURSIVE StrLess(_, _)
StrLess(a, b) ==
    IF Len(b) = 0 THEN FALSE
    ELSE IF Len(a) = 0 THEN TRUE
    ELSE IF CharAt(a, 1) = CharAt(b, 1)
         THEN StrLess(SubSeq(a, 2, Len(a)), SubSeq(b, 2, Len(b)))
         ELSE Ord[CharAt(a, 1)] < Ord[CharAt(b, 1)]

StrLeq(a, b) == a = b \/ StrLess(a, b)

\* [String]::join(sep)
RECURSIVE Join(_, _)
Join(lines, sep) ==
    IF Len(lines) = 0 THEN ""
    ELSE IF Len(lines) = 1 THEN lines[1]
    ELSE lines[1] \o sep \o Join(Tail(lines), sep)

\* Option<&str>
None == [some |-> FALSE, v |-> ""]
Some(s) == [some |-> TRUE, v |-> s]

\* What a call produced: a value, or a panic that unwinds the caller.
Returned(s) == [ok |-> TRUE, val |-> s]
Panicked == [ok |-> FALSE, val |-> ""]
NotCalled == [ok |-> FALSE, val |-> "-"]

\* The variables of a part of the program that a specification leaves out.
IdleUrl ==
    /\ url = ""
    /\ name = None
    /\ prefix = "Git"
    /\ yocto = NotCalled

IdleMain ==
    /\ resolve = <<>>
    /\ reproducible = FALSE
    /\ idx = 1
    /\ src_uris = <<>>
    /\ src_uri_extras = <<>>
    /\ inc_file = None
    /\ bb_file = None

IdleLic ==
    /\ files = <<>>
    /\ rel_dir = ""
    /\ license = ""
    /\ licenses = <<>>
    /\ single_license = FALSE
    /\ license_name = ""
    /\ lic_line = NotCalled
    /\ lic_files = <<>>

\* #[derive(Default)] for ProjectRepo: empty strings and tag = false.
ProjectRepo_default == [uri |-> "", branch |-> "", rev |-> "", tag |-> FALSE]

\* The project fields of the .bb file before it is written.
NotWritten ==
    [written |-> FALSE, project_src_uri |-> "", project_src_rev |-> "",
     git_srcpv |-> ""]

\* A working directory outside any git checkout.
NoRepository ==
    [discovered |-> FALSE, origin |-> FALSE, submodules |-> "empty",
     url |-> None, head |-> FALSE, shorthand |-> None, target |-> None,
     tag_names |-> FALSE, tags |-> <<>>]

IdleRepo ==
    /\ repo = NoRepository
    /\ legacy_overrides = FALSE
    /\ project_repo = ProjectRepo_default
    /\ git_srcpv = ""
    /\ bb_project = NotWritten

-----------------------------------------------------------------------------
(* src/git.rs *)

\* Regex::is_match for r".*@.*:.*": unanchored, and '.' matches any
\* character but a line feed, so an '@' is followed by a ':' on its line.
SSH_STYLE_REMOTE_is_match(s) ==
    \E i \in 1..Len(s) :
        /\ CharAt(s, i) = "@"
        /\ \E j \in (i + 1)..Len(s) :
              /\ CharAt(s, j) = ":"
              /\ \A k \in i..j : CharAt(s, k) # "\n"

GitPrefix == {"Git", "GitSubmodule"}

GitPrefix_default == "Git"

\* A Display that writes the same tag for both prefixes.
GitPrefix_fmt_same(p) == "git"

\* impl Display for GitPrefix

GitPrefix_fmt(p) == IF p = "Git" THEN "git" ELSE "gitsm"

fixed_url(u) ==
    IF SSH_STYLE_REMOTE_is_match(u)
    THEN "ssh://" \o Replace(u, ":", "/")
    ELSE u

git_to_yocto_git_url(u, n, p) ==
    LET fixed == fixed_url(u)
        at    == Find(fixed, ":")
    IN  IF at = 0
        THEN Panicked                        \* find(':').unwrap() on None
        ELSE
          LET proto == SubSeq(fixed, 1, at - 1)
              rest  == SubSeq(fixed, at, Len(fixed))
              y1    == IF proto \in {"ssh", "http", "https"}
                       THEN GitPrefix_fmt(p) \o rest \o ";protocol=" \o proto
                       ELSE fixed
              y2    == y1 \o ";nobranch=1"
          IN  Returned(IF n.some
                       THEN y2 \o ";name=" \o n.v \o ";destsuffix=" \o n.v
                       ELSE y2)

-----------------------------------------------------------------------------
(* Inputs of the translator *)

MaxTokens == 4

Schemes == {"", "ssh", "http", "https", "git", "file"}

BodyTokens == {"://", ":", "/", "@", "a"}

RECURSIVE Bodies(_)
Bodies(n) ==
    IF n = 0 THEN {""}
    ELSE LET shorter == Bodies(n - 1)
         IN  shorter \cup {b \o t : b \in shorter, t \in BodyTokens}

\* The URLs of the tests of src/git.rs, and remotes with a port or with a
\* ':' in the path.
SampleUrls ==
    { "http://github.com/rust-lang/cargo.git",
      "https://github.com/rust-lang/cargo.git",
      "git@github.com:rust-lang/cargo.git",
      "ssh://git@github.com/rust-lang/cargo.git",
      "https://example.com/r.git",
      "git@github.com:org/repo.git",
      "ssh://git@host:22/r.git",
      "git@host:a:b",
      "git://host/r.git",
      "cargo" }

Urls == {s \o b : s \in Schemes, b \in Bodies(MaxTokens)} \cup SampleUrls

Names == {None, Some("cargo"), Some("pkg")}

-----------------------------------------------------------------------------
(* The translator called once on an arbitrary input *)

InitUrl ==
    /\ pc = "call"
    /\ url \in Urls
    /\ name \in Names
    /\ prefix \in GitPrefix
    /\ yocto = NotCalled
    /\ IdleMain
    /\ IdleLic
    /\ IdleRepo

Translate ==
    /\ pc = "call"
    /\ yocto' = git_to_yocto_git_url(url, name, prefix)
    /\ pc' = IF yocto'.ok THEN "returned" ELSE "panicked"
    /\ UNCHANGED <<url, name, prefix, mainVars, licVars, repoVars>>

NextUrl == Translate

SpecUrl == InitUrl /\ [][NextUrl]_vars


-----------------------------------------------------------------------------
(* src/main.rs: the dependency loop of real_main *)

CRATES_IO_URL == "crates.io"

AUTOREV == "${AUTOREV}"

\* The length of a full commit id (s.len() == 40).
FullHashLen == 40

\* SourceId::is_registry, is_path, is_git
is_registry(src) == src.kind = "registry"
is_path(src) == src.kind = "path"
is_git(src) == src.kind = "git"

\* The package being packaged (package.name()).
RootName == "app"

\* A choice that takes the precise revision whenever there is one, asked
\* for or not.
ChooseRevAlwaysPrecise(src, repro) ==
    IF src.precise.some THEN Returned(src.precise.v)
    ELSE CASE src.reference.kind = "Tag" -> Returned(src.reference.v)
           [] src.reference.kind = "Rev" ->
                IF Len(src.reference.v) = FullHashLen
                THEN Returned(src.reference.v) ELSE Panicked
           [] src.reference.kind = "Branch" ->
                IF src.reference.v = "master" THEN Returned(AUTOREV)
                ELSE Returned(src.reference.v)
           [] OTHER -> Returned(AUTOREV)

\* A choice that rejects an abbreviated commit id only under
\* reproducibility mode, and writes it as it is otherwise.
ChooseRevStrictWhenReproducible(src, repro) ==
    IF repro /\ src.precise.some THEN Returned(src.precise.v)
    ELSE CASE src.reference.kind = "Tag" -> Returned(src.reference.v)
           [] src.reference.kind = "Rev" ->
                IF Len(src.reference.v) = FullHashLen
                THEN Returned(src.reference.v)
                ELSE IF src.precise.some THEN Returned(src.precise.v)
                ELSE IF repro THEN Panicked
                ELSE Returned(src.reference.v)
           [] src.reference.kind = "Branch" ->
                IF src.reference.v = "master" THEN Returned(AUTOREV)
                ELSE Returned(src.reference.v)
           [] OTHER -> Returned(AUTOREV)

\* The revision of a git dependency: Returned(rev), or Panicked at
\* panic!("cannot find rev in correct format!").
ChooseRev(src, repro) ==
    LET precise == IF repro THEN src.precise ELSE None
        ref == src.reference
    IN  IF precise.some THEN Returned(precise.v)
        ELSE CASE ref.kind = "Tag" -> Returned(ref.v)
               [] ref.kind = "Rev" ->
                    IF Len(ref.v) = FullHashLen
                    THEN Returned(ref.v)
                    ELSE IF src.precise.some
                         THEN Returned(src.precise.v)
                         ELSE Panicked
               [] ref.kind = "Branch" ->
                    IF ref.v = "master" THEN Returned(AUTOREV)
                    ELSE Returned(ref.v)
               [] OTHER -> Returned(AUTOREV)        \* DefaultBranch

RegistryLine(pkg) ==
    "    crate://" \o CRATES_IO_URL \o "/" \o pkg.name \o "/" \o pkg.version
    \o " \\\n"

GitLine(pkg) ==
    "    "
    \o git_to_yocto_git_url(pkg.source.url, Some(pkg.name),
                            GitPrefix_default).val
    \o " \\\n"

OtherLine(pkg) == "    " \o pkg.source.url \o " \\\n"

SrcrevFormatLine(pkg) == "SRCREV_FORMAT .= \"_" \o pkg.name \o "\""

SrcrevLine(pkg, rev) == "SRCREV_" \o pkg.name \o " = \"" \o rev \o "\""

ExtraPathLine(pkg) ==
    "EXTRA_OECARGO_PATHS += \"${WORKDIR}/" \o pkg.name \o "\""

\* A closure that skips no package.
SkipsNone(pkg) == FALSE

\* Whether the closure skips the package sharing the root's name.
SkipsRoot(pkg) == pkg.name = RootName

\* Vec<String>::sort by insertion: ascending in the order of StrLess.
RECURSIVE Insert(_, _)
Insert(sorted, x) ==
    IF Len(sorted) = 0 THEN <<x>>
    ELSE IF StrLeq(x, sorted[1]) THEN <<x>> \o sorted
    ELSE <<sorted[1]>> \o Insert(Tail(sorted), x)

\* A collect that leaves the lines in iteration order.
Unsorted(lines) == lines

RECURSIVE Sort(_)
Sort(lines) ==
    IF Len(lines) = 0 THEN <<>>
    ELSE Insert(Sort(Tail(lines)), lines[1])

\* One call of the filter_map closure, on the package resolve[idx].
FilterMap ==
    /\ pc = "iter"
    /\ idx <= Len(resolve)
    /\ LET pkg == resolve[idx]
           src == pkg.source
       IN  IF SkipsRoot(pkg) THEN
               /\ pc' = "iter"
               /\ UNCHANGED <<src_uris, src_uri_extras>>
           ELSE IF is_registry(src) THEN
               /\ pc' = "iter"
               /\ src_uris' = Append(src_uris, RegistryLine(pkg))
               /\ UNCHANGED src_uri_extras
           ELSE IF is_path(src) THEN
               /\ pc' = "iter"
               /\ UNCHANGED <<src_uris, src_uri_extras>>
           ELSE IF is_git(src) THEN
               LET yurl == git_to_yocto_git_url(src.url, Some(pkg.name),
                                                GitPrefix_default)
                   rev  == ChooseRev(src, reproducible)
               IN  IF ~yurl.ok THEN
                       /\ pc' = "panicked"
                       /\ UNCHANGED <<src_uris, src_uri_extras>>
                   ELSE IF ~rev.ok THEN
                       /\ pc' = "panicked"
                       /\ src_uri_extras' =
                              Append(src_uri_extras, SrcrevFormatLine(pkg))
                       /\ UNCHANGED src_uris
                   ELSE
                       /\ pc' = "iter"
                       /\ src_uri_extras' = src_uri_extras \o
                              << SrcrevFormatLine(pkg),
                                 SrcrevLine(pkg, rev.val),
                                 ExtraPathLine(pkg) >>
                       /\ src_uris' = Append(src_uris, GitLine(pkg))
           ELSE
               /\ pc' = "iter"
               /\ src_uris' = Append(src_uris, OtherLine(pkg))
               /\ UNCHANGED src_uri_extras
    /\ idx' = idx + 1
    /\ UNCHANGED <<resolve, reproducible, inc_file, bb_file, urlVars, licVars, repoVars>>

\* The iterator is exhausted: collect, src_uris.sort(), and the rest of
\* real_main up to the opening of the .inc file.  Any of the fallible
\* steps in between (no homepage and no repository, rel_dir, open) may
\* return its error to main.
SortUris ==
    /\ pc = "iter"
    /\ idx > Len(resolve)
    /\ src_uris' = Sort(src_uris)
    /\ \E failed \in BOOLEAN : pc' = IF failed THEN "error" ELSE "write_inc"
    /\ UNCHANGED <<resolve, reproducible, idx, src_uri_extras, inc_file,
                   bb_file, urlVars, licVars, repoVars>>

\* write!(file, bitbake_inc.template, src_uri = src_uris.join(""))
WriteInc ==
    /\ pc = "write_inc"
    /\ \E failed \in BOOLEAN :
         IF failed
         THEN pc' = "error" /\ UNCHANGED inc_file
         ELSE pc' = "write_bb" /\ inc_file' = Some(Join(src_uris, ""))
    /\ UNCHANGED <<resolve, reproducible, idx, src_uris, src_uri_extras,
                   bb_file, urlVars, licVars, repoVars>>

\* write!(file, bitbake.template, ..., src_uri_extras.join("\n"), ...,
\*        project_src_uri = project_repo.uri, project_src_rev = project_repo.rev,
\*        git_srcpv = git_srcpv, ...)
WriteBb ==
    /\ pc = "write_bb"
    /\ \E failed \in BOOLEAN :
         IF failed
         THEN pc' = "error" /\ UNCHANGED <<bb_file, bb_project>>
         ELSE /\ pc' = "done"
              /\ bb_file' = Some(Join(src_uri_extras, "\n"))
              /\ bb_project' = [written |-> TRUE,
                                project_src_uri |-> project_repo.uri,
                                project_src_rev |-> project_repo.rev,
                                git_srcpv |-> git_srcpv]
    /\ UNCHANGED <<resolve, reproducible, idx, src_uris, src_uri_extras,
                   inc_file, urlVars, licVars, repo, legacy_overrides,
                   project_repo, git_srcpv>>

\* The loop as a function of the sequence the resolver is iterated in:
\* whether a call of the closure panicked, and otherwise the lines
\* returned (before the sort) and the auxiliary lines pushed.
RECURSIVE Collect(_, _)
Collect(pkgs, repro) ==
    IF Len(pkgs) = 0
    THEN [panicked |-> FALSE, uris |-> <<>>, extras |-> <<>>]
    ELSE
      LET before == Collect(SubSeq(pkgs, 1, Len(pkgs) - 1), repro)
          pkg    == pkgs[Len(pkgs)]
          src    == pkg.source
      IN  IF before.panicked THEN before
          ELSE IF SkipsRoot(pkg) THEN before
          ELSE IF is_registry(src)
          THEN [before EXCEPT !.uris = Append(@, RegistryLine(pkg))]
          ELSE IF is_path(src) THEN before
          ELSE IF is_git(src)
          THEN LET yurl == git_to_yocto_git_url(src.url, Some(pkg.name),
                                                GitPrefix_default)
                   rev  == ChooseRev(src, repro)
               IN  IF ~yurl.ok \/ ~rev.ok
                   THEN [before EXCEPT !.panicked = TRUE]
                   ELSE [before EXCEPT
                           !.uris = Append(@, GitLine(pkg)),
                           !.extras = @ \o << SrcrevFormatLine(pkg),
                                              SrcrevLine(pkg, rev.val),
                                              ExtraPathLine(pkg) >>]
          ELSE [before EXCEPT !.uris = Append(@, OtherLine(pkg))]

\* What a run that meets no error writes, given the iteration order.
Artifacts(pkgs, repro) ==
    LET c == Collect(pkgs, repro)
    IN  [written |-> ~c.panicked,
         inc |-> Join(Sort(c.uris), ""),
         bb  |-> Join(c.extras, "\n")]

-----------------------------------------------------------------------------
(* Inputs of real_main: what the resolver may return *)

MaxPkgs == 2

Repeat(c, n) == Join([i \in 1..n |-> c], "")

FullRev == Repeat("a", FullHashLen)
PreciseRev == Repeat("b", FullHashLen)
LongRev == Repeat("c", FullHashLen + 1)

GitReferences ==
    { [kind |-> "Tag", v |-> "v1.0"],
      [kind |-> "Rev", v |-> FullRev],
      [kind |-> "Rev", v |-> "abc1234"],
      [kind |-> "Rev", v |-> LongRev],
      [kind |-> "Branch", v |-> "master"],
      [kind |-> "Branch", v |-> "dev"],
      [kind |-> "DefaultBranch", v |-> ""] }

NoReference == [kind |-> "None", v |-> ""]

RegistrySource(index) ==
    [kind |-> "registry", url |-> index, reference |-> NoReference,
     precise |-> None]

PathSource ==
    [kind |-> "path", url |-> "file:///ws/dep", reference |-> NoReference,
     precise |-> None]

DirectorySource ==
    [kind |-> "directory", url |-> "file:///ws/vendor",
     reference |-> NoReference, precise |-> None]

GitSource(r, p) ==
    [kind |-> "git", url |-> "https://example.com/r.git", reference |-> r,
     precise |-> p]

Pkg(n, v, s) == [name |-> n, version |-> v, source |-> s]

\* The root package's own entry in the resolve.
RootPkg == Pkg(RootName, "0.1.0", PathSource)

TagV1 == [kind |-> "Tag", v |-> "v1.0"]

\* The references a package is given a precise revision under.
PinnedReferences == {r \in GitReferences : r.v \in {"v1.0", "abc1234", "master", ""}}

\* The other packages a resolve may hold: foo from a registry, a path or a
\* directory; bar from a repository, under every reference without a
\* precise revision and under some with one; baz from a repository; and a
\* repository package that shares the root's name.
Deps ==
    { Pkg("foo", "1.2.3", s) :
        s \in { RegistrySource("crates.io"), RegistrySource("pkgindex"),
                PathSource, DirectorySource } }
    \cup { Pkg("bar", "0.3.0", GitSource(r, None)) : r \in GitReferences }
    \cup { Pkg("bar", "0.3.0", GitSource(r, Some(PreciseRev))) :
             r \in PinnedReferences }
    \cup { Pkg("baz", "0.4.0", GitSource(TagV1, None)),
           Pkg(RootName, "0.2.0", GitSource(TagV1, None)) }

\* The sequences of at most n distinct dependencies.
RECURSIVE DepSeqs(_)
DepSeqs(n) ==
    IF n = 0 THEN {<<>>}
    ELSE LET shorter == DepSeqs(n - 1)
         IN  shorter \cup
             { Append(r, p) : r \in shorter, p \in Deps }

Distinct(r) == \A i, j \in 1..Len(r) : i # j => r[i] # r[j]

InsertAt(r, k, x) == SubSeq(r, 1, k - 1) \o <<x>> \o SubSeq(r, k, Len(r))

\* What the resolver yields: the root package and at most MaxPkgs
\* dependencies, in any order.
Resolves ==
    UNION { { InsertAt(r, k, RootPkg) : k \in 1..(Len(r) + 1) } :
              r \in {d \in DepSeqs(MaxPkgs) : Distinct(d)} }

Init ==
    /\ pc = "iter"
    /\ resolve \in Resolves
    /\ reproducible \in BOOLEAN
    /\ idx = 1
    /\ src_uris = <<>>
    /\ src_uri_extras = <<>>
    /\ inc_file = None
    /\ bb_file = None
    /\ IdleUrl
    /\ IdleLic
    /\ IdleRepo

Next == FilterMap \/ SortUris \/ WriteInc \/ WriteBb

Spec == Init /\ [][Next]_vars

-----------------------------------------------------------------------------
(* src/license.rs *)

CLOSED_LICENSE == "CLOSED"

\* The state of a directory entry: absent, present but not readable, or a
\* readable file with its content.
NoFile == [exists |-> FALSE, readable |-> FALSE, content |-> ""]
Unreadable == [exists |-> TRUE, readable |-> FALSE, content |-> ""]
FileOf(c) == [exists |-> TRUE, readable |-> TRUE, content |-> c]

\* md5::Context over the whole content, formatted {:x}.
Md5Hex(content) ==
    CASE content = ""  -> "d41d8cd98f00b204e9800998ecf8427e"
      [] content = "a" -> "0cc175b9c0f1b6a831c399e269772661"

\* Path::join(..).exists() under crate_root; the empty name is crate_root
\* itself.
path_exists(fs, n) == n = "" \/ (n \in DOMAIN fs /\ fs[n].exists)

\* file_md5: Err when the file cannot be opened or read (a directory).
file_md5(fs, n) ==
    IF n \in DOMAIN fs /\ fs[n].exists /\ fs[n].readable
    THEN Returned(Md5Hex(fs[n].content))
    ELSE Panicked

\* file_md5(..).unwrap_or_else(|_| String::from("generateme"))
md5sum(fs, n) == IF file_md5(fs, n).ok THEN file_md5(fs, n).val ELSE "generateme"

\* Path::join then display, for a relative second path.
PathJoin(dir, n) ==
    IF StartsWith(n, "/") THEN n
    ELSE IF dir = "" THEN n
    ELSE IF CharAt(dir, Len(dir)) = "/" THEN dir \o n
    ELSE dir \o "/" \o n

EvidenceLine(path, sum) == "file://" \o path \o ";md5=" \o sum \o " \\\n"

\* A resolver that lets LICENSE stand in whether or not it is allowed.
file_any_bare(fs, rd, ln, single) ==
    IF ln = CLOSED_LICENSE THEN ""
    ELSE IF path_exists(fs, ln)
         THEN EvidenceLine(PathJoin(rd, ln), md5sum(fs, ln))
    ELSE IF path_exists(fs, "LICENSE-" \o ln)
         THEN EvidenceLine(PathJoin(rd, "LICENSE-" \o ln),
                           md5sum(fs, "LICENSE-" \o ln))
    ELSE IF path_exists(fs, "LICENSE")
         THEN EvidenceLine(PathJoin(rd, "LICENSE"), md5sum(fs, "LICENSE"))
    ELSE "file://" \o ln \o ";md5=generateme \\\n"

\* license::file
file(fs, rd, ln, single) ==
    IF ln = CLOSED_LICENSE THEN ""
    ELSE LET special_name == "LICENSE-" \o ln
         IN  IF path_exists(fs, ln)
             THEN EvidenceLine(PathJoin(rd, ln), md5sum(fs, ln))
             ELSE IF path_exists(fs, special_name)
             THEN EvidenceLine(PathJoin(rd, special_name),
                               md5sum(fs, special_name))
             ELSE IF path_exists(fs, "LICENSE") /\ single
             THEN EvidenceLine(PathJoin(rd, "LICENSE"),
                               md5sum(fs, "LICENSE"))
             ELSE "file://" \o ln \o ";md5=generateme \\\n"

-----------------------------------------------------------------------------
(* src/main.rs: the license loop of real_main *)

\* str::split(char): the pieces between the separators, empty ones kept.
RECURSIVE Split(_, _)
Split(s, sep) ==
    LET at == Find(s, sep)
    IN  IF at = 0 THEN <<s>>
        ELSE <<SubSeq(s, 1, at - 1)>> \o Split(SubSeq(s, at + 1, Len(s)), sep)

\* A flag that allows the bare LICENSE file for every expression.
SingleLicenseAlways(ls) == TRUE

SingleLicense(ls) == Len(ls) = 1

\* let licenses = license.split('/').collect(); single_license = len == 1
SplitLicense ==
    /\ pc = "license"
    /\ licenses' = Split(license, "/")
    /\ single_license' = SingleLicense(licenses')
    /\ pc' = "lic_files"
    /\ UNCHANGED <<files, rel_dir, license, license_name, lic_line,
                   lic_files, urlVars, mainVars, repoVars>>

\* One turn of the loop: lic_files.push(format!("    {}", license::file(..)))
PushLicFile ==
    /\ pc = "lic_files"
    /\ licenses # <<>>
    /\ license_name' = Head(licenses)
    /\ lic_line' = Returned(file(files, rel_dir, license_name', single_license))
    /\ lic_files' = Append(lic_files, "    " \o lic_line'.val)
    /\ licenses' = Tail(licenses)
    /\ pc' = "lic_files"
    /\ UNCHANGED <<files, rel_dir, license, single_license, urlVars, mainVars, repoVars>>

-----------------------------------------------------------------------------
(* Inputs of the license resolver *)

MaxComponents == 2

LicenseNames == {"MIT", "Apache-2.0", CLOSED_LICENSE, ""}

FileNames == {"MIT", "LICENSE-MIT", "Apache-2.0", "LICENSE-Apache-2.0",
              "LICENSE"}

FileStates == {NoFile, Unreadable, FileOf("a")}

RelDirs == {"", "sub"}

\* The expressions of at most n components.
RECURSIVE Expressions(_)
Expressions(n) ==
    IF n = 1 THEN LicenseNames
    ELSE LET shorter == Expressions(n - 1)
         IN  shorter \cup {e \o "/" \o c : e \in shorter, c \in LicenseNames}

InitLic ==
    /\ pc = "license"
    /\ files \in [FileNames -> FileStates]
    /\ rel_dir \in RelDirs
    /\ license \in Expressions(MaxComponents)
    /\ licenses = <<>>
    /\ single_license = FALSE
    /\ license_name = ""
    /\ lic_line = NotCalled
    /\ lic_files = <<>>
    /\ IdleUrl
    /\ IdleMain
    /\ IdleRepo

NextLic == SplitLicense \/ PushLicFile

SpecLic == InitLic /\ [][NextLic]_vars

\* license::file called once on arbitrary arguments.
InitFile ==
    /\ pc = "call_file"
    /\ files \in [FileNames -> FileStates \cup {FileOf("")}]
    /\ rel_dir \in RelDirs
    /\ license_name \in LicenseNames
    /\ single_license \in BOOLEAN
    /\ license = ""
    /\ licenses = <<>>
    /\ lic_line = NotCalled
    /\ lic_files = <<>>
    /\ IdleUrl
    /\ IdleMain
    /\ IdleRepo

CallFile ==
    /\ pc = "call_file"
    /\ lic_line' = Returned(file(files, rel_dir, license_name, single_license))
    /\ pc' = "file_returned"
    /\ UNCHANGED <<files, rel_dir, license, licenses, single_license,
                   license_name, lic_files, urlVars, mainVars, repoVars>>

NextFile == CallFile

SpecFile == InitFile /\ [][NextFile]_vars

-----------------------------------------------------------------------------
(* src/git.rs: ProjectRepo::new, and what real_main does with it *)

\* CargoResult<ProjectRepo>; a third kind stands for a panic inside the call.
Ok(v) == [kind |-> "Ok", val |-> v, msg |-> ""]
Err(m) == [kind |-> "Err", val |-> ProjectRepo_default, msg |-> m]
Unwound == [kind |-> "Panic", val |-> ProjectRepo_default, msg |-> ""]

\* A tag name that is walked: revparse_single(tag) and then
\* peel(ObjectType::Commit) may each fail; id is the commit reached.
NoObject == [revparse |-> FALSE, peel |-> FALSE, id |-> ""]
NotACommit == [revparse |-> TRUE, peel |-> FALSE, id |-> ""]
TagAt(id) == [revparse |-> TRUE, peel |-> TRUE, id |-> id]

\* A rev_is_tag that takes any tag that resolves for a tag of the revision.
rev_is_tag_any(r, rev) ==
    r.tag_names /\ \E i \in 1..Len(r.tags) : r.tags[i].revparse

\* ProjectRepo::rev_is_tag
rev_is_tag(r, rev) ==
    IF ~r.tag_names
    THEN FALSE
    ELSE \E i \in 1..Len(r.tags) :
            /\ r.tags[i].revparse
            /\ r.tags[i].peel
            /\ r.tags[i].id = rev

\* ProjectRepo::new: each '?' returns the error of the step that failed.
ProjectRepo_new(r) ==
    IF ~r.discovered
    THEN Err("Unable to determine git repo for this project")
    ELSE IF ~r.origin
    THEN Err("Unable to find remote 'origin' for this project")
    ELSE IF r.submodules = "error"
    THEN Err("Unable to determine the submodules")
    ELSE IF ~r.url.some
    THEN Err("No URL for remote 'origin'")
    ELSE
      LET p   == IF r.submodules = "empty" THEN "Git" ELSE "GitSubmodule"
          uri == git_to_yocto_git_url(r.url.v, None, p)
      IN  IF ~uri.ok
          THEN Unwound
          ELSE IF ~r.head
          THEN Err("Unable to find HEAD")
          ELSE IF ~r.shorthand.some
          THEN Err("Unable resolve HEAD to a branch")
          ELSE
            LET branch == r.shorthand.v
                uri2   == IF branch = "master" \/ branch = "HEAD"
                          THEN uri.val
                          ELSE uri.val \o ";branch=" \o branch
            IN  IF ~r.target.some
                THEN Err("Unable to resolve HEAD to a commit")
                ELSE Ok([uri |-> uri2, branch |-> branch, rev |-> r.target.v,
                         tag |-> rev_is_tag(r, r.target.v)])

\* A directive that is cut two characters later.
git_srcpv_of_12(project, legacy) ==
    IF ~project.tag /\ Len(project.rev) > 10
    THEN (IF legacy THEN "PV_append" ELSE "PV:append")
         \o " = \".AUTOINC+" \o SubSeq(project.rev, 1, 12) \o "\""
    ELSE ""

\* real_main: let git_srcpv = if !project_repo.tag && ... { format!(...) }
git_srcpv_of(project, legacy) ==
    IF ~project.tag /\ Len(project.rev) > 10
    THEN (IF legacy THEN "PV_append" ELSE "PV:append")
         \o " = \".AUTOINC+" \o SubSeq(project.rev, 1, 10) \o "\""
    ELSE ""

\* real_main: git::ProjectRepo::new(config).unwrap_or_else(|e| { println!;
\* Default::default() }); a panic in the call unwinds real_main.
ProbeRepo ==
    /\ pc = "probe"
    /\ LET res == ProjectRepo_new(repo)
       IN  IF res.kind = "Panic"
           THEN pc' = "panicked" /\ UNCHANGED project_repo
           ELSE /\ pc' = "git_srcpv"
                /\ project_repo' = IF res.kind = "Ok"
                                   THEN res.val
                                   ELSE ProjectRepo_default
    /\ UNCHANGED <<repo, legacy_overrides, git_srcpv, bb_project, urlVars,
                   mainVars, licVars>>

GitSrcpv ==
    /\ pc = "git_srcpv"
    /\ git_srcpv' = git_srcpv_of(project_repo, legacy_overrides)
    /\ pc' = "write_inc"
    /\ UNCHANGED <<repo, legacy_overrides, project_repo, bb_project, urlVars,
                   mainVars, licVars>>

-----------------------------------------------------------------------------
(* Inputs of the probe: the checkout the tool is run in *)

MaxTags == 1

\* Oid::to_string of HEAD's commit.  git2 writes the 40 hexadecimal digits
\* of a SHA-1 id; texts of 10 and 12 characters are drawn as well, so that
\* the length test of real_main is met from both sides.
HeadOid == "0123456789abcdef0123456789abcdef01234567"

HeadIds == {HeadOid, SubSeq(HeadOid, 1, 12), SubSeq(HeadOid, 1, 10)}

RemoteUrls ==
    {"https://example.com/app.git", "git@example.com:app.git",
     "/srv/git/app.git"}

Shorthands == {"master", "HEAD", "dev"}

TagStates == {NoObject, NotACommit} \cup {TagAt(id) : id \in HeadIds}

TagLists == UNION {[1..n -> TagStates] : n \in 0..MaxTags}

Repositories ==
    [discovered : BOOLEAN, origin : BOOLEAN,
     submodules : {"error", "empty", "nonempty"},
     url : {None} \cup {Some(u) : u \in RemoteUrls},
     head : BOOLEAN,
     shorthand : {None} \cup {Some(b) : b \in Shorthands},
     target : {None} \cup {Some(id) : id \in HeadIds},
     tag_names : BOOLEAN,
     tags : TagLists]

\* The steps of real_main from the probe on: the dependency and license
\* loops have run and left nothing behind.
InitRepo ==
    /\ pc = "probe"
    /\ repo \in Repositories
    /\ legacy_overrides \in BOOLEAN
    /\ project_repo = ProjectRepo_default
    /\ git_srcpv = ""
    /\ bb_project = NotWritten
    /\ IdleUrl
    /\ IdleMain
    /\ IdleLic

NextRepo == ProbeRepo \/ GitSrcpv \/ WriteInc \/ WriteBb

SpecRepo == InitRepo /\ [][NextRepo]_vars

-----------------------------------------------------------------------------
(* Claims about the translator, checked under SpecUrl *)

Drop(s, n) == SubSeq(s, n + 1, Len(s))

\* The text before the first ':' of a URL that has one.
SchemeOf(u) == SubSeq(u, 1, Find(u, ":") - 1)

\* The short remote form user@host:path: an '@', then the first ':' of the
\* string after it (no scheme precedes the '@').
IsShortRemote(u) == Find(u, "@") > 0 /\ Find(u, ":") > Find(u, "@")

NameSuffix(n) ==
    IF n.some THEN ";name=" \o n.v \o ";destsuffix=" \o n.v ELSE ""

\* C1: a URL whose text before its first ':' is ssh, http or https is
\* translated to <prefix tag><URL from its first ':'>;protocol=<scheme>
\* ;nobranch=1 and the name suffixes iff a name is given; a URL with any
\* other scheme is returned unchanged, followed by the same suffixes.
C1_SchemeTranslation ==
    (pc = "returned" /\ Find(url, ":") > 0 /\ ~IsShortRemote(url)) =>
        yocto.val =
            IF SchemeOf(url) \in {"ssh", "http", "https"}
            THEN GitPrefix_fmt(prefix) \o Drop(url, Find(url, ":") - 1)
                 \o ";protocol=" \o SchemeOf(url)
                 \o ";nobranch=1" \o NameSuffix(name)
            ELSE url \o ";nobranch=1" \o NameSuffix(name)

\* C2: an input of the short remote form user@host:path is rewritten to
\* ssh:// form by replacing only the first ':' after the host with '/',
\* every other character unchanged, and then translated as an ssh URL.
C2_ShortRemoteRewrite ==
    (pc # "call" /\ IsShortRemote(url)) =>
        LET c == Find(url, ":")
            path == SubSeq(url, 1, c - 1) \o "/" \o Drop(url, c)
        IN  /\ yocto.ok
            /\ yocto.val = GitPrefix_fmt(prefix) \o "://" \o path
                           \o ";protocol=ssh;nobranch=1" \o NameSuffix(name)

\* C3: the translator is total: whatever the URL (the empty string and
\* strings without ':' included), the name and the prefix, the call returns
\* a string and never aborts.
C3_Total == pc # "call" => yocto.ok

\* The result of the same call made with the other prefix.
WithPrefix(p) ==
    IF p = prefix THEN yocto ELSE git_to_yocto_git_url(url, name, p)

\* The URLs the translator rewrites to the git dialect: the ones it takes
\* for a short remote, and the ones whose scheme is ssh, http or https.
Rewritten(u) ==
    \/ SSH_STYLE_REMOTE_is_match(u)
    \/ Find(u, ":") > 0 /\ SchemeOf(u) \in {"ssh", "http", "https"}

\* C4 (as stated): whenever the Plain result begins with "git", the
\* Submodule result begins with "gitsm" and the two are identical after
\* the prefix tag.
C4_SubmoduleTagAlways ==
    (pc # "call" /\ WithPrefix("Git").ok
                 /\ StartsWith(WithPrefix("Git").val, "git")) =>
        /\ WithPrefix("GitSubmodule").ok
        /\ StartsWith(WithPrefix("GitSubmodule").val, "gitsm")
        /\ Drop(WithPrefix("GitSubmodule").val, 5)
             = Drop(WithPrefix("Git").val, 3)

\* C4 (amended): for a URL the translator rewrites, the Plain result is
\* "git" S and the Submodule result "gitsm" S for the same S; for any other
\* URL with a ':' the two results are the same string, whatever it begins
\* with; for a URL without ':' both calls abort.
C4_SubmoduleTagWhenRewritten ==
    pc # "call" =>
        LET plain == WithPrefix("Git")
            subm  == WithPrefix("GitSubmodule")
        IN  IF Find(url, ":") = 0
            THEN ~plain.ok /\ ~subm.ok
            ELSE /\ plain.ok /\ subm.ok
                 /\ IF Rewritten(url)
                    THEN /\ StartsWith(plain.val, "git:")
                         /\ StartsWith(subm.val, "gitsm:")
                         /\ Drop(subm.val, 5) = Drop(plain.val, 3)
                    ELSE subm.val = plain.val

\* The test remote_ssh_with_submodules of src/git.rs.
C4_Witness ==
    /\ pc = "returned"
    /\ url = "git@github.com:rust-lang/cargo.git"
    /\ prefix = "GitSubmodule"
    /\ yocto.val = "gitsm://git@github.com/rust-lang/cargo.git;protocol=ssh;nobranch=1;name=cargo;destsuffix=cargo"

-----------------------------------------------------------------------------
(* Claims about the dependency loop, checked under Spec *)

Count(seq, x) == Cardinality({i \in DOMAIN seq : seq[i] = x})

\* The packages the closure has been called on.
Processed == SubSeq(resolve, 1, idx - 1)

\* A dependency to fetch: not named as the root, and not on a local path.
Fetched(p) == p.name # RootName /\ p.source.kind # "path"

FetchedOf(pkgs) == SelectSeq(pkgs, Fetched)

IsGitDep(p) == p.name # RootName /\ p.source.kind = "git"

\* An abbreviated commit reference with no precise revision to fall back on.
IsUnpinnedShortRev(p) ==
    /\ IsGitDep(p)
    /\ p.source.reference.kind = "Rev"
    /\ Len(p.source.reference.v) # 40
    /\ ~p.source.precise.some

IncWritten == inc_file.some

\* The fetch-URI line C5 gives a fetched package, by its origin kind alone;
\* a registry package's line names the index of its own origin.
C5_ClaimedLine(p) ==
    CASE p.source.kind = "registry" ->
            "    crate://" \o p.source.url \o "/" \o p.name \o "/"
            \o p.version \o " \\\n"
      [] p.source.kind = "git" ->
            "    " \o git_to_yocto_git_url(p.source.url, Some(p.name),
                                           "Git").val \o " \\\n"
      [] OTHER -> "    " \o p.source.url \o " \\\n"

\* C5: the fetch-URI lines written are, package for package, the lines
\* their origin kinds determine: <scheme>://<index>/<name>/<version> with
\* the package's own index for a registry package, none for a local path,
\* the translated remote URL for a repository, the raw URL otherwise.
C5_LineByOriginKind ==
    IncWritten =>
        /\ Len(src_uris) = Len(FetchedOf(resolve))
        /\ \A i \in DOMAIN resolve :
              Fetched(resolve[i]) =>
                 Count(src_uris, C5_ClaimedLine(resolve[i])) > 0

\* The line the closure emits for a fetched package.
LineOf(p) ==
    IF is_registry(p.source) THEN RegistryLine(p)
    ELSE IF is_git(p.source) THEN GitLine(p)
    ELSE OtherLine(p)

Sorted(lines) ==
    \A i, j \in DOMAIN lines : i < j => StrLeq(lines[i], lines[j])

\* C6: whatever the resolve and its order, the fetch-URI list written to
\* the .inc file is sorted ascending and holds one line for each package
\* that is neither named as the root nor on a local path, and no other.
C6_SortedWithoutRoot ==
    IncWritten =>
        /\ Sorted(src_uris)
        /\ inc_file.v = Join(src_uris, "")
        /\ Len(src_uris) = Len(FetchedOf(resolve))
        /\ \A l \in {src_uris[i] : i \in DOMAIN src_uris} :
              Count(src_uris, l) =
                 Cardinality({i \in DOMAIN resolve :
                                 Fetched(resolve[i]) /\ LineOf(resolve[i]) = l})

\* A resolve that yields a repository before a registry package, with the
\* root in between: the two lines are written in the other order.
C6_Witness ==
    /\ pc = "done"
    /\ Len(resolve) = 3
    /\ resolve[1].source.kind = "git" /\ resolve[1].name = "bar"
    /\ resolve[2] = RootPkg
    /\ resolve[3].source.kind = "registry" /\ resolve[3].name = "foo"
    /\ src_uris = <<LineOf(resolve[3]), LineOf(resolve[1])>>
    /\ inc_file.v = LineOf(resolve[3]) \o LineOf(resolve[1])

\* The value C7 gives SRCREV_<name>, in its priority order.
C7_ClaimedRev(src, repro) ==
    IF repro /\ src.precise.some THEN src.precise.v
    ELSE CASE src.reference.kind = "Tag" -> src.reference.v
           [] src.reference.kind = "Rev" /\ Len(src.reference.v) = 40 ->
                 src.reference.v
           [] src.reference.kind = "Rev" /\ Len(src.reference.v) # 40 ->
                 src.precise.v
           [] src.reference.kind = "Branch" /\ src.reference.v = "master" ->
                 "${AUTOREV}"
           [] src.reference.kind = "Branch" /\ src.reference.v # "master" ->
                 src.reference.v
           [] src.reference.kind = "DefaultBranch" -> "${AUTOREV}"

IsSrcrevAssignment(l) ==
    StartsWith(l, "SRCREV_") /\ ~StartsWith(l, "SRCREV_FORMAT")

ClaimedSrcrevLine(p) ==
    "SRCREV_" \o p.name \o " = \""
    \o C7_ClaimedRev(p.source, reproducible) \o "\""

RECURSIVE MapSeq(_, _)
MapSeq(Op(_), seq) ==
    IF Len(seq) = 0 THEN <<>>
    ELSE <<Op(seq[1])>> \o MapSeq(Op, Tail(seq))

\* C7: the SRCREV_<name> assignments emitted are, in order, those of the
\* repository packages processed, each with the value the priority order
\* gives: the precise revision under reproducibility mode when present,
\* else the tag, the 40-character commit id, the precise revision for a
\* commit id of another length, ${AUTOREV} for master and for the default
\* branch, the branch name for any other branch.
C7_RevisionPriority ==
    pc # "panicked" =>
        /\ SelectSeq(src_uri_extras, IsSrcrevAssignment)
             = MapSeq(ClaimedSrcrevLine, SelectSeq(Processed, IsGitDep))
        /\ bb_file.some => bb_file.v = Join(src_uri_extras, "\n")

\* A tagged repository with a precise revision, under reproducibility
\* mode: the precise revision is written, not the tag.
C7_Witness ==
    /\ pc = "done"
    /\ reproducible
    /\ \E i \in DOMAIN resolve :
          /\ IsGitDep(resolve[i])
          /\ resolve[i].source.reference.kind = "Tag"
          /\ resolve[i].source.precise = Some(PreciseRev)
          /\ Count(src_uri_extras,
                   "SRCREV_bar = \"" \o PreciseRev \o "\"") > 0

\* The run has aborted on the revision of the package last processed.
AbortedOnRev ==
    /\ pc = "panicked"
    /\ idx > 1
    /\ ~ChooseRev(resolve[idx - 1].source, reproducible).ok

\* C8 (as stated): an abbreviated commit reference with no precise
\* revision aborts the run only under reproducibility mode, and the abort
\* reaches the process boundary as an error result, never as a crash.
C8_FatalOnlyWhenReproducible ==
    /\ ~reproducible => ~AbortedOnRev
    /\ pc # "panicked"

\* C8 (amended): an abbreviated commit reference with no precise revision
\* is fatal in both modes: the run aborts at that package and at no other,
\* by a panic and not by an error result, and neither artifact is written;
\* with a precise revision present the run does not abort for this reason.
C8_FatalInBothModes ==
    /\ \A i \in 1..(idx - 1) :
          IsUnpinnedShortRev(resolve[i]) => (pc = "panicked" /\ i = idx - 1)
    /\ pc = "panicked" =>
          /\ IsUnpinnedShortRev(resolve[idx - 1])
          /\ ~inc_file.some /\ ~bb_file.some

\* The abort without reproducibility mode.
C8_Witness ==
    /\ AbortedOnRev
    /\ ~reproducible
    /\ IsUnpinnedShortRev(resolve[idx - 1])

EndsWith(s, t) ==
    Len(s) >= Len(t) /\ SubSeq(s, Len(s) - Len(t) + 1, Len(s)) = t

\* A fetch-URI line of a package from a repository.
IsGitUriLine(l) == StartsWith(l, "    git://")

\* The lines k-th repository package is expected to have added, at 3k-2..3k.
AuxiliaryOf(p, k) ==
    /\ src_uri_extras[3 * k - 2] = "SRCREV_FORMAT .= \"_" \o p.name \o "\""
    /\ StartsWith(src_uri_extras[3 * k - 1], "SRCREV_" \o p.name \o " = \"")
    /\ EndsWith(src_uri_extras[3 * k - 1], "\"")
    /\ src_uri_extras[3 * k] =
          "EXTRA_OECARGO_PATHS += \"${WORKDIR}/" \o p.name \o "\""

\* C13: in a run that has not aborted, the auxiliary lines are those of the
\* repository packages called so far that do not share the root's name:
\* for each of them, in turn, SRCREV_FORMAT .= "_<name>", SRCREV_<name> =
\* "<value>" and EXTRA_OECARGO_PATHS += "${WORKDIR}/<name>", one after the
\* other; no other package adds a line, so there are three times as many
\* auxiliary lines as repository lines in the fetch list, and the .bb file
\* is written with them.
C13_ThreeAuxiliaryLines ==
    pc # "panicked" =>
        LET g == SelectSeq(Processed, IsGitDep)
        IN  /\ Len(src_uri_extras) = 3 * Len(g)
            /\ \A k \in 1..Len(g) : AuxiliaryOf(g[k], k)
            /\ Len(src_uri_extras) =
                  3 * Cardinality({i \in DOMAIN src_uris :
                                      IsGitUriLine(src_uris[i])})
            /\ bb_file.some => bb_file.v = Join(src_uri_extras, "\n")

\* Two repository packages around the root package: six lines are written,
\* three for each in the order of the resolve.
C13_Witness ==
    /\ pc = "done"
    /\ Len(resolve) = 3
    /\ resolve[1].name = "baz"
    /\ resolve[2] = RootPkg
    /\ resolve[3].name = "bar"
    /\ resolve[3].source.reference.kind = "DefaultBranch"
    /\ bb_file.v = Join(<<"SRCREV_FORMAT .= \"_baz\"",
                          "SRCREV_baz = \"v1.0\"",
                          "EXTRA_OECARGO_PATHS += \"${WORKDIR}/baz\"",
                          "SRCREV_FORMAT .= \"_bar\"",
                          "SRCREV_bar = \"${AUTOREV}\"",
                          "EXTRA_OECARGO_PATHS += \"${WORKDIR}/bar\"">>, "\n")

\* The sequences with the same packages as seq, in every order.
Reordered(seq) ==
    { [i \in 1..Len(seq) |-> seq[f[i]]] : f \in Permutations(1..Len(seq)) }

\* The function Collect gives what the actions of the loop leave behind.
CollectAgrees ==
    /\ pc \in {"iter", "write_inc", "write_bb", "done", "error"} =>
          LET c == Collect(Processed, reproducible)
          IN  /\ ~c.panicked
              /\ src_uri_extras = c.extras
              /\ idx <= Len(resolve) => src_uris = c.uris
    /\ pc = "panicked" => Collect(Processed, reproducible).panicked
    /\ pc = "done" =>
          Artifacts(resolve, reproducible) =
              [written |-> TRUE, inc |-> inc_file.v, bb |-> bb_file.v]

\* C14: a run that has written both files has written what the run on any
\* reordering of its resolve writes, the other inputs being the same: the
\* same .inc content and the same .bb content, auxiliary lines included.
C14_OrderIndependent ==
    pc = "done" =>
        \A q \in Reordered(resolve) :
            LET other == Artifacts(q, reproducible)
            IN  /\ other.written
                /\ other.inc = inc_file.v
                /\ other.bb = bb_file.v

\* C14, for the .inc file alone.
C14_IncOrderIndependent ==
    pc = "done" =>
        \A q \in Reordered(resolve) :
            LET other == Artifacts(q, reproducible)
            IN  other.written /\ other.inc = inc_file.v

-----------------------------------------------------------------------------
(* Claims about the license evidence, checked under SpecFile and SpecLic *)

Present(n) == n = "" \/ (n \in DOMAIN files /\ files[n].exists)

\* The checksum reported for a matched file: its MD5, or the placeholder
\* when it cannot be read.
ReportedSum(n) ==
    IF n \in DOMAIN files /\ files[n].readable
    THEN Md5Hex(files[n].content)
    ELSE "generateme"

\* relative_dir joined with a file name.
InRelDir(n) == IF rel_dir = "" THEN n ELSE rel_dir \o "/" \o n

Matched(n) ==
    "file://" \o InRelDir(n) \o ";md5=" \o ReportedSum(n) \o " \\\n"

Placeholder(c) == "file://" \o c \o ";md5=generateme \\\n"

\* C9: for a component other than CLOSED the resolver returns the line of
\* the first match among <root>/<component>, <root>/LICENSE-<component>
\* and, only if allowed, <root>/LICENSE, reported under relative_dir and
\* with md5=generateme when the file cannot be read; with no match the
\* placeholder line of the bare component; for CLOSED the empty string.
C9_FirstMatchWins ==
    pc = "file_returned" =>
        /\ lic_line.ok
        /\ lic_line.val =
             IF license_name = "CLOSED" THEN ""
             ELSE IF Present(license_name) THEN Matched(license_name)
             ELSE IF Present("LICENSE-" \o license_name)
                  THEN Matched("LICENSE-" \o license_name)
             ELSE IF single_license /\ Present("LICENSE")
                  THEN Matched("LICENSE")
             ELSE Placeholder(license_name)

\* LICENSE-MIT is there but unreadable, MIT is not, LICENSE is: the second
\* rule wins, under the relative directory, with the placeholder checksum.
C9_Witness ==
    /\ pc = "file_returned"
    /\ license_name = "MIT"
    /\ single_license
    /\ rel_dir = "sub"
    /\ ~files["MIT"].exists
    /\ files["LICENSE-MIT"] = Unreadable
    /\ files["LICENSE"] = FileOf("a")
    /\ lic_line.val = "file://sub/LICENSE-MIT;md5=generateme \\\n"

\* The components whose evidence lines have been pushed.
Components == Split(license, "/")

\* C10: the bare LICENSE file is allowed exactly when the expression has
\* one component; with two or more, whatever the directory holds, each
\* component's line is that of its own file, <component> or
\* LICENSE-<component>, or the placeholder, and never that of LICENSE.
C10_NoBareLicenseForSeveral ==
    pc = "lic_files" =>
        /\ single_license <=> (Len(Components) = 1)
        /\ Len(Components) >= 2 =>
             \A i \in DOMAIN lic_files :
                LET c == Components[i]
                IN  /\ lic_files[i] = "    " \o
                         ( IF c = "CLOSED" THEN ""
                           ELSE IF Present(c) THEN Matched(c)
                           ELSE IF Present("LICENSE-" \o c)
                                THEN Matched("LICENSE-" \o c)
                           ELSE Placeholder(c) )
                    /\ ~StartsWith(lic_files[i],
                                   "    file://" \o InRelDir("LICENSE") \o ";")

\* MIT/Apache-2.0 in a directory that holds only a readable LICENSE: both
\* components fall back to the placeholder.
C10_Witness ==
    /\ pc = "lic_files"
    /\ license = "MIT/Apache-2.0"
    /\ licenses = <<>>
    /\ \A n \in DOMAIN files : files[n].exists <=> n = "LICENSE"
    /\ files["LICENSE"] = FileOf("a")
    /\ lic_files = << "    file://MIT;md5=generateme \\\n",
                      "    file://Apache-2.0;md5=generateme \\\n" >>

-----------------------------------------------------------------------------
(* Claims about the probe and the version pin, checked under SpecRepo *)

AfterGitSrcpv == pc \in {"write_inc", "write_bb", "done", "error"}

PvKey == IF legacy_overrides THEN "PV_append" ELSE "PV:append"

\* C11: the version-pin directive is emitted exactly when HEAD is not a
\* recognized tag and the revision text has more than 10 characters; it is
\* <key> = ".AUTOINC+<the first 10 characters of the revision>", where the
\* key is PV_append under the legacy flag and PV:append otherwise, and the
\* .bb file is written with it.
C11_VersionPin ==
    AfterGitSrcpv =>
        /\ git_srcpv # "" <=>
              (~project_repo.tag /\ Len(project_repo.rev) > 10)
        /\ git_srcpv # "" =>
              /\ git_srcpv = PvKey \o " = \".AUTOINC+"
                                   \o SubSeq(project_repo.rev, 1, 10) \o "\""
              /\ Len(git_srcpv) = Len(PvKey) + 24
        /\ bb_project.written => bb_project.git_srcpv = git_srcpv

\* A 12-character revision that is not a tag, written under the legacy key.
C11_Witness ==
    /\ pc = "done"
    /\ Len(project_repo.rev) = 12
    /\ ~project_repo.tag
    /\ legacy_overrides
    /\ bb_project.written
    /\ bb_project.git_srcpv = "PV_append = \".AUTOINC+0123456789\""

\* One of the steps the probe gives up on: no repository, no 'origin',
\* the submodules, the URL of the remote, HEAD as a branch, HEAD as a commit.
ProbeStepFails ==
    \/ ~repo.discovered
    \/ ~repo.origin
    \/ repo.submodules = "error"
    \/ ~repo.url.some
    \/ ~repo.head
    \/ ~repo.shorthand.some
    \/ ~repo.target.some

\* No tag of the checkout resolves to a commit, or the tags cannot be listed.
TagsFail ==
    \/ ~repo.tag_names
    \/ \A i \in 1..Len(repo.tags) : repo.tags[i] \in {NoObject, NotACommit}

BestEffort ==
    /\ ProbeStepFails /\ pc # "probe" =>
          /\ pc # "panicked"
          /\ project_repo = ProjectRepo_default
          /\ AfterGitSrcpv => git_srcpv = ""
          /\ pc = "done" =>
                /\ inc_file.some
                /\ bb_file.some
                /\ bb_project = [written |-> TRUE, project_src_uri |-> "",
                                 project_src_rev |-> "", git_srcpv |-> ""]
    /\ ~ProbeStepFails /\ TagsFail /\ pc # "probe" =>
          /\ pc # "panicked"
          /\ ~project_repo.tag
          /\ project_repo.rev = repo.target.v
          /\ project_repo.branch = repo.shorthand.v

\* C12: whichever step of the probe fails, the run goes on with the default
\* ProjectRepo (all four fields default, never a partly filled one), writes
\* both artifacts and emits no version pin; failing to list or to resolve
\* the tags only leaves tag = false and does not fail the probe.
C12_BestEffort == BestEffort

\* C12, for the remotes the translator returns from (a ':' in the URL).
C12_BestEffortWhenUrlTranslates ==
    (repo.url.some => Find(repo.url.v, ":") # 0) => BestEffort

=============================================================================
